---------------------------- MODULE Spec2Model ----------------------------
(***************************************************************************)
(* Model of the JSON explorer page (src/app/explorer/page.tsx): the record *)
(* collection, the filter state, the edit overlay and the asynchronous     *)
(* loads, as a state machine with one action per UI handler or completion; *)
(* and of the rate demo page (src/app/demo-1131/page.tsx): computeRates,   *)
(* the load effect and its cleanup.                                        *)
(*                                                                         *)
(* Representation.  A JavaScript string is a sequence of one-character     *)
(* strings.  A JSON value is a record [kind, n, s, a, o]: kind names the   *)
(* JavaScript type, n holds a number (or 0/1 for a boolean), s a string, a *)
(* the elements of an array and o the entries of a nested object.  A       *)
(* record of the collection (JsonRecord) is a sequence of entries [k, v]   *)
(* in key order, because Object.keys and JSON.stringify observe that order.*)
(* Array positions are 1-based here and 0-based in the source; the         *)
(* operators that print an index (getRowId) print the source's index.      *)
(***************************************************************************)
EXTENDS Integers, Sequences, FiniteSets, TLC

VARIABLES
    rows,              \* useState rows (page.tsx:11)
    jsonData,          \* useState jsonData (page.tsx:12)
    jsonKeys,          \* useState jsonKeys (page.tsx:13)
    q,                 \* useState q, the global query (page.tsx:14)
    columnFilters,     \* useState columnFilters: key -> pattern (page.tsx:15)
    columnExactMatch,  \* useState columnExactMatch: key -> boolean (page.tsx:16)
    visibleColumns,    \* useState visibleColumns: key -> boolean (page.tsx:18)
    editingRowId,      \* useState editingRowId; NoId stands for null (page.tsx:19)
    editingData,       \* useState editingData, the draft (page.tsx:20)
    editedRows,        \* useState editedRows, a set of row ids (page.tsx:21)
    editingEnabled,    \* useState editingEnabled (page.tsx:22)
    pending,           \* asynchronous operations in flight (fetches, file reads)
    alerts,            \* whether the last completed import raised alert()
    editTarget,        \* position in rows of the row whose Edit button was clicked
    steps,             \* handlers and completions run since the page was mounted
    lastOp,            \* the last handler or completion that wrote the collection or
                       \* the edit overlay, with the editing id and index it saw
    stats,             \* demo page: useState stats (demo-1131/page.tsx:222)
    meta,              \* demo page: useState meta (demo-1131/page.tsx:223)
    error,             \* demo page: useState error (demo-1131/page.tsx:224)
    mapRef,            \* demo page: mapRef.current, 0 stands for null (demo-1131/page.tsx:219)
    containerRef,      \* demo page: whether containerRef.current is a DOM node (demo-1131/page.tsx:220)
    maps,              \* demo page: the map instances created and not removed
    fetches,           \* demo page: the state of each of the four fixture requests
    load,              \* demo page: where the async function of the effect stands
    loadEndedIn,       \* demo page: the page's lifecycle state when the load ended
    page,              \* demo page: lifecycle of the component in React
    args               \* demo page: the areas and the population payload of the fixtures

vars == <<rows, jsonData, jsonKeys, q, columnFilters, columnExactMatch,
          visibleColumns, editingRowId, editingData, editedRows,
          editingEnabled, pending, alerts, editTarget, steps, lastOp,
          stats, meta, error, mapRef, containerRef, maps, fetches, load,
          loadEndedIn, page, args>>

\* The state of the rate demo page
demoVars == <<stats, meta, error, mapRef, containerRef, maps, fetches, load,
              loadEndedIn, page, args>>

----------------------------------------------------------------------------
(* JavaScript strings *)

\* String.prototype.toLowerCase on one character of the alphabet in use.
Lower(c) ==
    CASE c = "A" -> "a"
      [] c = "B" -> "b"
      [] c = "X" -> "x"
      [] c = "Y" -> "y"
      [] c = "O" -> "o"
      [] c = "U" -> "u"
      [] c = "L" -> "l"
      [] OTHER -> c

toLowerCase(str) == [i \in 1..Len(str) |-> Lower(str[i])]

\* String.prototype.includes: pat occurs in str as a contiguous substring.
includes(str, pat) ==
    \E i \in 0..(Len(str) - Len(pat)) : SubSeq(str, i + 1, i + Len(pat)) = pat

Digit(d) ==
    CASE d = 0 -> "0" [] d = 1 -> "1" [] d = 2 -> "2" [] d = 3 -> "3"
      [] d = 4 -> "4" [] d = 5 -> "5" [] d = 6 -> "6" [] d = 7 -> "7"
      [] d = 8 -> "8" [] OTHER -> "9"

RECURSIVE NatToStr(_)
NatToStr(n) == IF n < 10 THEN <<Digit(n)>> ELSE NatToStr(n \div 10) \o <<Digit(n % 10)>>

\* String(n) for an integer n.
NumToStr(n) == IF n < 0 THEN <<"-">> \o NatToStr(0 - n) ELSE NatToStr(n)

----------------------------------------------------------------------------
(* JSON values *)

Val(kind, n, s, a, o) == [kind |-> kind, n |-> n, s |-> s, a |-> a, o |-> o]

Null      == Val("null", 0, <<>>, <<>>, <<>>)
Undefined == Val("undefined", 0, <<>>, <<>>, <<>>)
Num(n)    == Val("number", n, <<>>, <<>>, <<>>)
Str(s)    == Val("string", 0, s, <<>>, <<>>)
Bool(b)   == Val("boolean", IF b THEN 1 ELSE 0, <<>>, <<>>, <<>>)
Arr(a)    == Val("array", 0, <<>>, a, <<>>)
Obj(o)    == Val("object", 0, <<>>, <<>>, o)

Entry(k, v) == [k |-> k, v |-> v]

\* The characters of a property name.
KeyChars(k) ==
    CASE k = "id"        -> <<"i", "d">>
      [] k = "tier"      -> <<"t", "i", "e", "r">>
      [] k = "tags"      -> <<"t", "a", "g", "s">>
      [] k = "meta"      -> <<"m", "e", "t", "a">>
      [] k = "indicator" -> <<"i", "n", "d", "i", "c", "a", "t", "o", "r">>
      [] k = "unsd_code" -> <<"u", "n", "s", "d", "_", "c", "o", "d", "e">>
      [] OTHER           -> <<"k">>

\* Array.isArray(value)
isArray(v) == v.kind = "array"

\* value === null || value === undefined
isNullish(v) == v.kind \in {"null", "undefined"}

\* JavaScript truthiness (the tests `row.unsd_code`, `value || ''`, `!filterValue`).
Truthy(v) ==
    CASE v.kind \in {"null", "undefined"} -> FALSE
      [] v.kind = "number"  -> v.n # 0
      [] v.kind = "boolean" -> v.n = 1
      [] v.kind = "string"  -> v.s # <<>>
      [] OTHER -> TRUE

RECURSIVE JoinWith(_, _, _)
\* the strings of parts, separated by sep
JoinWith(parts, sep, i) ==
    IF i > Len(parts) THEN <<>>
    ELSE IF i = Len(parts) THEN parts[i]
    ELSE parts[i] \o sep \o JoinWith(parts, sep, i + 1)

RECURSIVE ToStr(_)
\* String(value): the ToString conversion.
ToStr(v) ==
    CASE v.kind = "null"      -> <<"n", "u", "l", "l">>
      [] v.kind = "undefined" -> <<"u", "n", "d", "e", "f", "i", "n", "e", "d">>
      [] v.kind = "number"    -> NumToStr(v.n)
      [] v.kind = "boolean"   -> IF v.n = 1 THEN <<"t", "r", "u", "e">>
                                 ELSE <<"f", "a", "l", "s", "e">>
      [] v.kind = "string"    -> v.s
      [] v.kind = "array"     ->
            JoinWith([i \in 1..Len(v.a) |->
                         IF isNullish(v.a[i]) THEN <<>> ELSE ToStr(v.a[i])],
                     <<",">>, 1)
      [] OTHER -> <<"[", "o", "b", "j", "e", "c", "t", " ", "O", "b", "j", "e", "c", "t", "]">>

\* join with the separator argument dropped: the default separator, a comma.
joinDefaultSeparator(a, sep) ==
    JoinWith([i \in 1..Len(a) |-> IF isNullish(a[i]) THEN <<>> ELSE ToStr(a[i])], <<",">>, 1)

\* Array.prototype.join(sep): null and undefined elements print as ''.
join(a, sep) ==
    JoinWith([i \in 1..Len(a) |-> IF isNullish(a[i]) THEN <<>> ELSE ToStr(a[i])], sep, 1)

RECURSIVE stringify(_)
\* JSON.stringify(value) without indentation.
stringify(v) ==
    CASE v.kind \in {"null", "undefined"} -> <<"n", "u", "l", "l">>
      [] v.kind = "number"  -> NumToStr(v.n)
      [] v.kind = "boolean" -> ToStr(v)
      [] v.kind = "string"  -> <<"\"">> \o v.s \o <<"\"">>
      [] v.kind = "array"   ->
            <<"[">> \o JoinWith([i \in 1..Len(v.a) |-> stringify(v.a[i])], <<",">>, 1)
                    \o <<"]">>
      [] OTHER ->
            <<"{">> \o JoinWith([i \in 1..Len(v.o) |->
                                    <<"\"">> \o KeyChars(v.o[i].k) \o <<"\"", ":">>
                                             \o stringify(v.o[i].v)],
                                <<",">>, 1)
                    \o <<"}">>

----------------------------------------------------------------------------
(* Records *)

HasKey(r, key) == \E i \in 1..Len(r) : r[i].k = key

\* r[key]: the value of a property, undefined when absent.
Get(r, key) ==
    IF HasKey(r, key)
    THEN r[CHOOSE i \in 1..Len(r) : r[i].k = key].v
    ELSE Undefined

\* { ...r, [key]: value }: an own key keeps its place, a new key goes last.
Put(r, key, value) ==
    IF HasKey(r, key)
    THEN [i \in 1..Len(r) |-> IF r[i].k = key THEN Entry(key, value) ELSE r[i]]
    ELSE Append(r, Entry(key, value))

\* Object.keys(r)
ObjectKeys(r) == [i \in 1..Len(r) |-> r[i].k]

\* JSON.stringify(r) of a record of the collection.
stringifyRecord(r) == stringify(Obj(r))


----------------------------------------------------------------------------
(* Row identity (page.tsx:25-42) *)

\* getRowId(row, index).  Every call site passes an index (a position or the
\* -1 of a failed findIndex), so the Math.random() branch is never taken.
getRowId(row, index) ==
    LET baseId ==
          IF Truthy(Get(row, "unsd_code")) THEN ToStr(Get(row, "unsd_code"))
          ELSE IF Truthy(Get(row, "id")) THEN ToStr(Get(row, "id"))
          ELSE IF Truthy(Get(row, "indicator")) THEN ToStr(Get(row, "indicator"))
          ELSE IF Len(jsonKeys) > 0 /\ jsonKeys[1] # ""
               THEN ToStr(Get(row, jsonKeys[1]))
               ELSE <<"u", "n", "k", "n", "o", "w", "n">>
    IN  baseId \o <<"-">> \o NumToStr(index)

\* rs.findIndex(r => JSON.stringify(r) === JSON.stringify(rowData)): the
\* source's 0-based index of the first match, -1 when there is none.
findIndexByContent(rs, rowData) ==
    LET hits == {i \in 1..Len(rs) : stringifyRecord(rs[i]) = stringifyRecord(rowData)}
    IN  IF hits = {} THEN -1
        ELSE (CHOOSE i \in hits : \A j \in hits : i <= j) - 1

\* prev.findIndex((r, i) => getRowId(r, i) === id)
findIndexById(rs, id) ==
    LET hits == {i \in 1..Len(rs) : getRowId(rs[i], i - 1) = id}
    IN  IF hits = {} THEN -1
        ELSE (CHOOSE i \in hits : \A j \in hits : i <= j) - 1

----------------------------------------------------------------------------
(* The filtered view (page.tsx:173-221) *)

\* The test of one value against the global query (page.tsx:178-187).
globalMatch(value) ==
    IF isNullish(value) THEN FALSE
    ELSE IF isArray(value)
         THEN includes(toLowerCase(join(value.a, <<" ">>)), toLowerCase(q))
    ELSE IF value.kind = "object"
         THEN includes(toLowerCase(stringify(value)), toLowerCase(q))
    ELSE includes(toLowerCase(ToStr(value)), toLowerCase(q))

\* okQ (page.tsx:176-189)
okQ(r) ==
    IF q # <<>>
    THEN \E i \in 1..Len(jsonKeys) : globalMatch(Get(r, jsonKeys[i]))
    ELSE TRUE

\* The exact-match flag of the column is not consulted.
exactMatchIgnored(filterKey) == FALSE

\* columnExactMatch[filterKey] || false
isExactMatchForThisColumn(filterKey) ==
    IF filterKey \in DOMAIN columnExactMatch THEN columnExactMatch[filterKey] ELSE FALSE

\* The comparison of a value that is not null with a lowered pattern
\* (page.tsx:201-216).
valueMatch(value, filterValueLower, exact) ==
    IF isArray(value)
    THEN IF exact
         THEN \E i \in 1..Len(value.a) :
                 toLowerCase(ToStr(value.a[i])) = filterValueLower
         ELSE includes(toLowerCase(join(value.a, <<" ">>)), filterValueLower)
    ELSE IF value.kind = "object"
    THEN IF exact
         THEN toLowerCase(stringify(value)) = filterValueLower
         ELSE includes(toLowerCase(stringify(value)), filterValueLower)
    ELSE IF exact
         THEN toLowerCase(ToStr(value)) = filterValueLower
         ELSE includes(toLowerCase(ToStr(value)), filterValueLower)

\* The null test of the column filter with its result inverted.
columnMatchNullPasses(value, filterValue, exact) ==
    IF filterValue = <<>> THEN TRUE
    ELSE IF isNullish(value) THEN TRUE
    ELSE valueMatch(value, toLowerCase(filterValue), exact)

\* The test of one value against one column filter (page.tsx:193-216).
columnMatch(value, filterValue, exact) ==
    IF filterValue = <<>> THEN TRUE
    ELSE IF isNullish(value) THEN FALSE
    ELSE valueMatch(value, toLowerCase(filterValue), exact)

\* okColumnFilters (page.tsx:192-217)
okColumnFilters(r) ==
    \A filterKey \in DOMAIN columnFilters :
        columnMatch(Get(r, filterKey), columnFilters[filterKey],
                    isExactMatchForThisColumn(filterKey))

\* The two conditions joined by || instead of &&.
passesEither(r) == okQ(r) \/ okColumnFilters(r)

\* The callback of rows.filter (page.tsx:174-220).
passes(r) == okQ(r) /\ okColumnFilters(r)

RECURSIVE keptFrom(_, _)
\* Array.prototype.filter, as the positions it keeps, in order.
keptFrom(rs, i) ==
    IF i > Len(rs) THEN <<>>
    ELSE (IF passes(rs[i]) THEN <<i>> ELSE <<>>) \o keptFrom(rs, i + 1)

\* The positions in rs of the records rs.filter(...) returns.
filterPositions(rs) == keptFrom(rs, 1)

\* The kept records collected in reverse order.
filterRowsReversed(rs) ==
    LET kept == filterPositions(rs)
    IN  [k \in 1..Len(kept) |-> rs[kept[Len(kept) + 1 - k]]]

\* rs.filter(r => okQ && okColumnFilters)
filterRows(rs) ==
    LET kept == filterPositions(rs) IN [k \in 1..Len(kept) |-> rs[kept[k]]]

\* const filtered = useMemo(...)
filtered == filterRows(rows)

----------------------------------------------------------------------------
(* Row rendering (page.tsx:452-456) *)

\* originalIndex of the k-th displayed row
originalIndex(k) == findIndexByContent(rows, filtered[k])

\* rowId of the k-th displayed row
rowId(k) == getRowId(filtered[k], originalIndex(k))

isEditing(k) == editingRowId = rowId(k)

isEdited(k) == rowId(k) \in editedRows


----------------------------------------------------------------------------
(* Loading a collection (page.tsx:45-85) *)

EmptyMap == [k \in {} |-> FALSE]

Range(f) == {f[i] : i \in DOMAIN f}

RECURSIVE addKeys(_, _, _)
\* ks.forEach(key => allKeys.add(key)): a Set keeps insertion order.
addKeys(acc, ks, j) ==
    IF j > Len(ks) THEN acc
    ELSE addKeys(IF ks[j] \in Range(acc) THEN acc ELSE Append(acc, ks[j]), ks, j + 1)

RECURSIVE allKeysFrom(_, _, _)
\* data.forEach(item => Object.keys(item).forEach(...)) (page.tsx:55-60)
allKeysFrom(acc, data, i) ==
    IF i > Len(data) THEN acc
    ELSE allKeysFrom(addKeys(acc, ObjectKeys(data[i]), 1), data, i + 1)

\* The keys of the first record only.
allKeysOfFirst(data) == IF Len(data) = 0 THEN <<>> ELSE ObjectKeys(data[1])

\* Array.from(allKeys) (page.tsx:62)
allKeys(data) == allKeysFrom(<<>>, data, 1)

priorityColumns == {"indicator", "title", "tier", "ladmLink", "externalData"}

\* index < 6 (page.tsx:80)
FirstColumnsShown == 6

\* defaultVisible without the fallback for a collection with no priority column.
defaultVisibleNoFallback(keys) == [k \in Range(keys) |-> k \in priorityColumns]

\* defaultVisible (page.tsx:68-82)
defaultVisible(keys) ==
    LET byPriority   == [k \in Range(keys) |-> k \in priorityColumns]
        visibleCount == Cardinality({k \in Range(keys) : byPriority[k]})
    IN  IF visibleCount = 0
        THEN [k \in Range(keys) |->
                 \E i \in 1..Len(keys) : keys[i] = k /\ i - 1 < FirstColumnsShown]
        ELSE byPriority

\* processJsonData that also resets the search box and the column filters.
processJsonDataResettingFilters(data) ==
    /\ IF Len(data) = 0
       THEN /\ jsonData' = <<>>
            /\ jsonKeys' = <<>>
            /\ rows' = <<>>
            /\ visibleColumns' = EmptyMap
       ELSE /\ jsonData' = data
            /\ jsonKeys' = allKeys(data)
            /\ rows' = data
            /\ visibleColumns' = defaultVisible(allKeys(data))
    /\ q' = <<>>
    /\ columnFilters' = EmptyMap
    /\ columnExactMatch' = EmptyMap

\* processJsonData(data) (page.tsx:45-85): the four state updates it makes;
\* it calls no setter of the search box, the column filters or the
\* exact-match flags.
processJsonData(data) ==
    /\ IF Len(data) = 0
       THEN /\ jsonData' = <<>>
            /\ jsonKeys' = <<>>
            /\ rows' = <<>>
            /\ visibleColumns' = EmptyMap
       ELSE /\ jsonData' = data
            /\ jsonKeys' = allKeys(data)
            /\ rows' = data
            /\ visibleColumns' = defaultVisible(allKeys(data))
    /\ UNCHANGED <<q, columnFilters, columnExactMatch>>

\* exportJsonData writing the rows on display instead of the collection.
dataToExportFiltered == filtered

\* dataToExport of exportJsonData (page.tsx:89)
dataToExport == IF Len(jsonData) > 0 THEN jsonData ELSE rows

----------------------------------------------------------------------------
(* Inputs *)

\* Longest collection drawn as an input of the filter
MaxRows == 2

\* Most handlers and completions run in one session of the page
MaxSteps == 8

\* Most operations started by the user (file reads, the Reset Edits fetch)
\* in flight at once
MaxPending == 1

\* Longest collection passed to processJsonData as an input of its own
MaxLoad == 3

R1 == <<Entry("id", Str(<<"a">>)), Entry("tier", Num(1)),
        Entry("tags", Arr(<<Str(<<"u">>), Str(<<"l">>)>>))>>

R2 == <<Entry("id", Str(<<"b">>)), Entry("tier", Num(10)),
        Entry("tags", Arr(<<Null, Str(<<"U", " ", "l">>)>>)), Entry("meta", Null)>>

R3 == <<Entry("tier", Str(<<"1">>)), Entry("id", Null),
        Entry("meta", Obj(<<Entry("tier", Num(1))>>))>>

\* {"a": 1}
R4 == <<Entry("a", Num(1))>>

\* A record of seven fields, none of them a priority column
R5 == <<Entry("k1", Num(1)), Entry("k2", Num(1)), Entry("a", Num(10)),
        Entry("k4", Null), Entry("k5", Num(1)), Entry("k6", Num(1)),
        Entry("k7", Num(1))>>

RecordPool == {R1, R2, R3}

\* Texts typed into the search box and the column filter inputs
PatternPool == {<<>>, <<"1">>, <<"u", " ", "L">>}

\* Texts typed into the search box
QueryPool == {<<>>, <<"1">>, <<"u", " ", "L">>}

\* Columns whose filter input and exact-match button the user operates
FilterPool == {"tier", "tags", "meta"}

\* The collections of up to MaxRows different records of the pool
Collections ==
    {c \in UNION {[1..n -> RecordPool] : n \in 1..MaxRows} :
        \A i, j \in 1..Len(c) : i # j => c[i] # c[j]}

\* The response of /data/crosswalk.v1.json
Fixture == <<R1, R2>>

\* Files offered to Import, by the outcome of JSON.parse on their text:
\* an array with two records of the same content, the single object {"a": 1},
\* and a text that is not JSON.
ImportPool ==
    << [valid |-> TRUE,  value |-> Arr(<<Obj(R1), Obj(R1)>>)],
       [valid |-> TRUE,  value |-> Obj(R4)],
       [valid |-> FALSE, value |-> Null] >>

\* Texts typed into a cell of the row being edited
EditPool == {<<"b">>}

NoId == <<>>

Op(name, id, idx) == [op |-> name, id |-> id, idx |-> idx]

Async(kind, file) == [kind |-> kind, file |-> file]


----------------------------------------------------------------------------
(* Filter handlers *)

\* A header cell, with its filter input and exact-match button, is rendered
\* for a known key that is visible (page.tsx:393-394).
headerShown(key) ==
    /\ key \in Range(jsonKeys)
    /\ key \in DOMAIN visibleColumns
    /\ visibleColumns[key]

\* onChange of the search box: setQ(e.target.value) (page.tsx:251)
SetQ(text) ==
    /\ q' = text
    /\ UNCHANGED <<rows, jsonData, jsonKeys, columnFilters, columnExactMatch,
                   visibleColumns, editingRowId, editingData,
                   editedRows, editingEnabled, pending, alerts, editTarget,
                   lastOp>>

\* onChange of a column filter input (page.tsx:412-415)
SetColumnFilter(key, text) ==
    /\ headerShown(key)
    /\ columnFilters' = [k \in DOMAIN columnFilters \cup {key} |->
                            IF k = key THEN text ELSE columnFilters[k]]
    /\ UNCHANGED <<rows, jsonData, jsonKeys, q, columnExactMatch, visibleColumns, editingRowId, editingData, editedRows,
                   editingEnabled, pending, alerts, editTarget,
                   lastOp>>

\* onClick of a column's exact-match button (page.tsx:422-428)
ToggleExactMatch(key) ==
    /\ headerShown(key)
    /\ columnExactMatch' = [k \in DOMAIN columnExactMatch \cup {key} |->
                               IF k = key
                               THEN ~isExactMatchForThisColumn(key)
                               ELSE columnExactMatch[k]]
    /\ UNCHANGED <<rows, jsonData, jsonKeys, q, columnFilters, visibleColumns, editingRowId, editingData, editedRows,
                   editingEnabled, pending, alerts, editTarget,
                   lastOp>>

\* Clear Filters resetting the filters only, an open session left open.
ClearFiltersKeepingSession ==
    /\ q' = <<>>
    /\ columnFilters' = EmptyMap
    /\ columnExactMatch' = EmptyMap
    /\ lastOp' = Op("clearFilters", editingRowId, Len(filtered))
    /\ UNCHANGED <<rows, jsonData, jsonKeys, visibleColumns, editingRowId,
                   editingData, editTarget, editedRows, editingEnabled,
                   pending, alerts>>

\* onClick of Clear Filters (page.tsx:259-265)
ClearFilters ==
    /\ q' = <<>>
    /\ columnFilters' = EmptyMap
    /\ columnExactMatch' = EmptyMap
    /\ editingRowId' = NoId
    /\ editingData' = <<>>
    /\ editTarget' = 0
    /\ lastOp' = Op("clearFilters", editingRowId, Len(filtered))
    /\ UNCHANGED <<rows, jsonData, jsonKeys, visibleColumns,
                   editedRows, editingEnabled, pending, alerts>>

----------------------------------------------------------------------------
(* Settings modal (page.tsx:693-790).  Whether the modal is open
   (showSettings, page.tsx:17) is presentation only: opening and closing it
   writes nothing else, so its handlers are modelled as available at any time. *)

\* onChange of the Enable Editing checkbox (page.tsx:725-731)
SetEditingEnabled ==
    /\ editingEnabled' = ~editingEnabled
    /\ IF editingEnabled
       THEN editingRowId' = NoId /\ editingData' = <<>> /\ editTarget' = 0
       ELSE UNCHANGED <<editingRowId, editingData, editTarget>>
    /\ lastOp' = Op("setEditingEnabled", NoId, -1)
    /\ UNCHANGED <<rows, jsonData, jsonKeys, q, columnFilters, columnExactMatch,
                   visibleColumns, editedRows, pending, alerts>>

\* onChange of a column's visibility checkbox (page.tsx:752-755)
ToggleColumn(key) ==
    /\ key \in Range(jsonKeys)
    /\ visibleColumns' = [k \in DOMAIN visibleColumns \cup {key} |->
                             IF k = key
                             THEN ~(key \in DOMAIN visibleColumns /\ visibleColumns[key])
                             ELSE visibleColumns[k]]
    /\ UNCHANGED <<rows, jsonData, jsonKeys, q, columnFilters, columnExactMatch,
                   editingRowId, editingData, editedRows,
                   editingEnabled, pending, alerts, editTarget,
                   lastOp>>

\* onClick of Show All (page.tsx:768-774)
ShowAll ==
    /\ visibleColumns' = [k \in Range(jsonKeys) |-> TRUE]
    /\ UNCHANGED <<rows, jsonData, jsonKeys, q, columnFilters, columnExactMatch,
                   editingRowId, editingData, editedRows,
                   editingEnabled, pending, alerts, editTarget,
                   lastOp>>


----------------------------------------------------------------------------
(* Edit handlers *)

\* Some displayed row shows Save and Cancel and its cells as inputs
\* (page.tsx:589, 620): editing is enabled and the row's id is the editing id.
editorShown == editingEnabled /\ \E k \in 1..Len(filtered) : isEditing(k)

\* startEditing refusing to start while a session is open.
startEditingRejecting(rowData) ==
    IF editingRowId # NoId
    THEN UNCHANGED <<editingRowId, editingData>>
    ELSE /\ editingRowId' = getRowId(rowData, findIndexByContent(rows, rowData))
         /\ editingData' = rowData

\* startEditing(rowData) (page.tsx:103-107)
startEditing(rowData) ==
    /\ editingRowId' = getRowId(rowData, findIndexByContent(rows, rowData))
    /\ editingData' = rowData

\* onClick of Edit on the k-th displayed row (page.tsx:606-607); the button is
\* rendered on the rows that are not shown as being edited.
ClickEdit(k) ==
    /\ editingEnabled
    /\ k \in 1..Len(filtered)
    /\ ~isEditing(k)
    /\ startEditing(filtered[k])
    /\ editTarget' = filterPositions(rows)[k]
    /\ lastOp' = Op("startEditing", editingRowId, findIndexByContent(rows, filtered[k]))
    /\ UNCHANGED <<rows, jsonData, jsonKeys, q, columnFilters, columnExactMatch,
                   visibleColumns, editedRows, editingEnabled,
                   pending, alerts>>

\* saveEdit without the early return for a missing session.
saveEditUnguarded ==
    LET idx == findIndexById(rows, editingRowId) IN
    /\ rows' = IF idx = -1 THEN rows ELSE [rows EXCEPT ![idx + 1] = editingData]
    /\ jsonData' = IF idx = -1 THEN jsonData ELSE rows'
    /\ editedRows' = editedRows \cup {editingRowId}
    /\ editingRowId' = NoId
    /\ editingData' = <<>>

\* saveEdit() (page.tsx:109-129)
saveEdit ==
    IF editingRowId = NoId
    THEN UNCHANGED <<rows, jsonData, editedRows, editingRowId, editingData>>
    ELSE LET idx == findIndexById(rows, editingRowId) IN
         /\ rows' = IF idx = -1 THEN rows ELSE [rows EXCEPT ![idx + 1] = editingData]
         /\ jsonData' = IF idx = -1 THEN jsonData ELSE rows'
         /\ editedRows' = editedRows \cup {editingRowId}
         /\ editingRowId' = NoId
         /\ editingData' = <<>>

\* onClick of Save (page.tsx:591-592)
ClickSave ==
    /\ editorShown
    /\ saveEdit
    /\ editTarget' = 0
    /\ lastOp' = Op("saveEdit", editingRowId, findIndexById(rows, editingRowId))
    /\ UNCHANGED <<jsonKeys, q, columnFilters, columnExactMatch, visibleColumns, editingEnabled, pending, alerts>>

\* cancelEdit closing the session but keeping the draft.
cancelEditKeepingDraft ==
    /\ editingRowId' = NoId
    /\ editingData' = editingData

\* cancelEdit() (page.tsx:131-134)
cancelEdit ==
    /\ editingRowId' = NoId
    /\ editingData' = <<>>

\* onClick of Cancel (page.tsx:597-598)
ClickCancel ==
    /\ editorShown
    /\ cancelEdit
    /\ editTarget' = 0
    /\ lastOp' = Op("cancelEdit", NoId, -1)
    /\ UNCHANGED <<rows, jsonData, jsonKeys, q, columnFilters, columnExactMatch,
                   visibleColumns, editedRows, editingEnabled,
                   pending, alerts>>

RECURSIVE splitFrom(_, _, _)
\* text.split(', ')
splitFrom(text, i, cur) ==
    IF i > Len(text) THEN <<cur>>
    ELSE IF i < Len(text) /\ text[i] = "," /\ text[i + 1] = " "
         THEN <<cur>> \o splitFrom(text, i + 2, <<>>)
         ELSE splitFrom(text, i + 1, Append(cur, text[i]))

\* e.target.value.split(', ').filter(Boolean) (page.tsx:630)
splitList(text) ==
    LET parts == SelectSeq(splitFrom(text, 1, <<>>), LAMBDA part : part # <<>>)
    IN  [i \in 1..Len(parts) |-> Str(parts[i])]

Digits == {"0", "1", "2", "3", "4", "5", "6", "7", "8", "9"}

RECURSIVE StrToNat(_, _)
StrToNat(text, i) ==
    IF i = 0 THEN 0
    ELSE 10 * StrToNat(text, i - 1) + (CHOOSE d \in 0..9 : Digit(d) = text[i])

\* JSON.parse(text) of a cell's text: a number when the text is a decimal
\* numeral, a SyntaxError for the other texts of EditPool.
parseJson(text) ==
    IF /\ Len(text) > 0
       /\ \A i \in 1..Len(text) : text[i] \in Digits
       /\ (Len(text) = 1 \/ text[1] # "0")
    THEN [ok |-> TRUE, value |-> Num(StrToNat(text, Len(text)))]
    ELSE [ok |-> FALSE, value |-> Null]

\* The draft replaced by the updated field alone, the row's other fields lost.
updateEditingFieldNoSpread(key, value) == editingData' = <<Entry(key, value)>>

\* updateEditingField(key, value) (page.tsx:137-142)
updateEditingField(key, value) == editingData' = Put(editingData, key, value)

\* onChange of the input of a cell of the row being edited (page.tsx:617-666):
\* the input's kind depends on the draft's value for the key.
EditCell(key, text) ==
    /\ editorShown
    /\ headerShown(key)
    /\ LET value == Get(editingData, key) IN
       IF isArray(value)
       THEN updateEditingField(key, Arr(splitList(text)))
       ELSE IF value.kind = "object"
       THEN updateEditingField(key, IF parseJson(text).ok
                                    THEN parseJson(text).value
                                    ELSE Str(text))
       ELSE updateEditingField(key, Str(text))
    /\ lastOp' = Op("updateEditingField", NoId, -1)
    /\ UNCHANGED <<rows, jsonData, jsonKeys, q, columnFilters, columnExactMatch,
                   visibleColumns, editingRowId, editedRows,
                   editingEnabled, pending, alerts, editTarget>>

----------------------------------------------------------------------------
(* Import, export, the initial load and Reset Edits *)

\* The records of an array of objects
recordsOf(items) == [i \in 1..Len(items) |-> items[i].o]

\* The asynchronous operations in flight that a click started
userStarted == {op \in pending : op.kind # "initialFetch"}

\* importJsonData (page.tsx:145-164): the file read is started.
Import(f) ==
    /\ f \in 1..Len(ImportPool)
    /\ Async("fileRead", f) \notin pending
    /\ Cardinality(userStarted) < MaxPending
    /\ pending' = pending \cup {Async("fileRead", f)}
    /\ UNCHANGED <<rows, jsonData, jsonKeys, q, columnFilters, columnExactMatch,
                   visibleColumns, editingRowId, editingData,
                   editedRows, editingEnabled, alerts, editTarget,
                   lastOp>>

\* The parsed value taken as it is, an object not wrapped into an array.
dataArrayUnwrapped(jsonContent) == jsonContent.a

\* dataArray of reader.onload (page.tsx:153)
dataArray(jsonContent) ==
    IF isArray(jsonContent) THEN jsonContent.a ELSE <<jsonContent>>

\* A catch block that empties the collection, as the initial load's does.
importFailedCollapsing ==
    /\ alerts' = TRUE
    /\ processJsonData(<<>>)

\* The catch block of reader.onload (page.tsx:155-158): alert(...) and
\* console.error(...), no state is written.
importFailed ==
    /\ alerts' = TRUE
    /\ UNCHANGED <<rows, jsonData, jsonKeys, visibleColumns, q, columnFilters,
                   columnExactMatch>>

\* reader.onload (page.tsx:150-159)
FileReadDone(f) ==
    /\ Async("fileRead", f) \in pending
    /\ pending' = pending \ {Async("fileRead", f)}
    /\ IF ImportPool[f].valid
       THEN /\ processJsonData(recordsOf(dataArray(ImportPool[f].value)))
            /\ alerts' = FALSE
            /\ editTarget' = 0
            /\ lastOp' = Op("importLoaded", NoId, -1)
       ELSE /\ importFailed
            /\ lastOp' = Op("importRejected", NoId, -1)
            /\ UNCHANGED editTarget
    /\ UNCHANGED <<editingRowId, editingData, editedRows, editingEnabled>>

\* exportJsonData (page.tsx:88-100): a download, no state is written.
Export ==
    /\ UNCHANGED <<rows, jsonData, jsonKeys, q, columnFilters, columnExactMatch,
                   visibleColumns, editingRowId, editingData,
                   editedRows, editingEnabled, pending, alerts, editTarget,
                   lastOp>>

\* The effect's fetch settling with a catch that leaves the state as it is.
InitialFetchDoneKeeping(ok) ==
    /\ Async("initialFetch", 0) \in pending
    /\ pending' = pending \ {Async("initialFetch", 0)}
    /\ IF ok
       THEN processJsonData(Fixture)
       ELSE UNCHANGED <<rows, jsonData, jsonKeys, visibleColumns, q,
                        columnFilters, columnExactMatch>>
    /\ editTarget' = 0
    /\ lastOp' = Op(IF ok THEN "initialLoaded" ELSE "initialFailed", NoId, -1)
    /\ UNCHANGED <<editingRowId, editingData, editedRows, editingEnabled, alerts>>

\* The fetch of the effect on mount settles (page.tsx:166-171): with the
\* fixture, or rejected (the fetch or r.json() failed).
InitialFetchDone(ok) ==
    /\ Async("initialFetch", 0) \in pending
    /\ pending' = pending \ {Async("initialFetch", 0)}
    /\ processJsonData(IF ok THEN Fixture ELSE <<>>)
    /\ editTarget' = 0
    /\ lastOp' = Op(IF ok THEN "initialLoaded" ELSE "initialFailed", NoId, -1)
    /\ UNCHANGED <<editingRowId, editingData, editedRows, editingEnabled, alerts>>

\* onClick of Reset Edits (page.tsx:284-296); the button is rendered while
\* editedRows is not empty, and confirm() is answered by the user.
ResetEdits(confirmed) ==
    /\ editedRows # {}
    /\ IF confirmed
       THEN /\ Async("resetFetch", 0) \notin pending
            /\ Cardinality(userStarted) < MaxPending
            /\ pending' = pending \cup {Async("resetFetch", 0)}
       ELSE UNCHANGED pending
    /\ lastOp' = Op(IF confirmed THEN "resetConfirmed" ELSE "resetDeclined", NoId, -1)
    /\ UNCHANGED <<rows, jsonData, jsonKeys, q, columnFilters, columnExactMatch,
                   visibleColumns, editingRowId, editingData,
                   editedRows, editingEnabled, alerts, editTarget>>

\* The Reset Edits fetch settling with the overlay left as it is.
ResetFetchDoneKeepingEdited(ok) ==
    /\ Async("resetFetch", 0) \in pending
    /\ pending' = pending \ {Async("resetFetch", 0)}
    /\ IF ok
       THEN /\ processJsonData(Fixture)
            /\ editTarget' = 0
            /\ UNCHANGED <<editedRows, editingRowId, editingData>>
       ELSE UNCHANGED <<rows, jsonData, jsonKeys, visibleColumns, editedRows,
                        editingRowId, editingData, editTarget, q,
                        columnFilters, columnExactMatch>>
    /\ lastOp' = Op(IF ok THEN "resetLoaded" ELSE "resetFailed", NoId, -1)
    /\ UNCHANGED <<editingEnabled, alerts>>

\* The fetch of Reset Edits settles (page.tsx:287-294); a rejection has no
\* handler and changes nothing.
ResetFetchDone(ok) ==
    /\ Async("resetFetch", 0) \in pending
    /\ pending' = pending \ {Async("resetFetch", 0)}
    /\ IF ok
       THEN /\ processJsonData(Fixture)
            /\ editedRows' = {}
            /\ editingRowId' = NoId
            /\ editingData' = <<>>
            /\ editTarget' = 0
       ELSE UNCHANGED <<rows, jsonData, jsonKeys, visibleColumns, editedRows,
                        editingRowId, editingData, editTarget, q,
                        columnFilters, columnExactMatch>>
    /\ lastOp' = Op(IF ok THEN "resetLoaded" ELSE "resetFailed", NoId, -1)
    /\ UNCHANGED <<editingEnabled, alerts>>

----------------------------------------------------------------------------
(* The rate demo page (demo-1131/page.tsx): values and computeRates *)

\* null for stats, meta and error
NoStats == [absent |-> TRUE]
NoMeta  == [absent |-> TRUE]
NoError == <<>>

\* A rate that is null
NoRate == [defined |-> FALSE, num |-> 0, den |-> 0, years |-> 0]

\* Math.log(num / den) / years for num > 0 and den > 0, kept as its three
\* operands: the logarithm is 0 iff num = den, and its sign is that of num - den.
logRate(num, den, years) ==
    [defined |-> TRUE, num |-> num, den |-> den, years |-> years]

\* rate !== 0 for a rate that is not null
isZero(rate) == rate.num = rate.den

\* A ratio that is null
NoRatio == [defined |-> FALSE, lcr |-> NoRate, pgr |-> NoRate]

\* Math.max(a, b)
max(a, b) == IF a >= b THEN a ELSE b

\* years without the floor of one year.
yearsUnclamped(pop) == pop.t_n - pop.t

\* const years (demo-1131/page.tsx:228)
years(pop) == max(1, pop.t_n - pop.t)

\* lcr computed whenever the later area is positive.
lcrLaterAreaOnly(areaT, areaTN, n) ==
    IF areaTN > 0 THEN logRate(areaTN, areaT, n) ELSE NoRate

\* const lcr (demo-1131/page.tsx:229)
lcr(areaT, areaTN, n) ==
    IF areaT > 0 /\ areaTN > 0 THEN logRate(areaTN, areaT, n) ELSE NoRate

\* const pgr (demo-1131/page.tsx:230)
pgr(pop, n) ==
    IF pop.population_t > 0 /\ pop.population_tn > 0
    THEN logRate(pop.population_tn, pop.population_t, n)
    ELSE NoRate

\* ratio computed without the test pgr !== 0.
ratioUnguarded(l, p) ==
    IF l.defined /\ p.defined
    THEN [defined |-> TRUE, lcr |-> l, pgr |-> p]
    ELSE NoRatio

\* const ratio (demo-1131/page.tsx:231): lcr / pgr, kept as its two operands
ratio(l, p) ==
    IF l.defined /\ p.defined /\ ~isZero(p)
    THEN [defined |-> TRUE, lcr |-> l, pgr |-> p]
    ELSE NoRatio

\* computeRates(areaT, areaTN, pop) (demo-1131/page.tsx:227-233)
computeRates(areaT, areaTN, pop) ==
    LET n == years(pop)
        l == lcr(areaT, areaTN, n)
        p == pgr(pop, n)
    IN  [absent |-> FALSE, area_t_m2 |-> areaT, area_tn_m2 |-> areaTN,
         years |-> n, lcr |-> l, pgr |-> p, ratio |-> ratio(l, p)]

\* PopPayload (demo-1131/page.tsx:198-203)
PopPayload(t, t_n, population_t, population_tn) ==
    [absent |-> FALSE, t |-> t, t_n |-> t_n, population_t |-> population_t,
     population_tn |-> population_tn]

\* The arguments of one call of computeRates
Args(areaT, areaTN, pop) == [areaT |-> areaT, areaTN |-> areaTN, pop |-> pop]

\* The four fixture requests, in the order of the Promise.all arrays
Files == 1..4

\* The demo page is not the page on display.
DemoNotMounted ==
    /\ stats = NoStats
    /\ meta = NoMeta
    /\ error = NoError
    /\ mapRef = 0
    /\ containerRef = FALSE
    /\ maps = {}
    /\ fetches = [i \in Files |-> "idle"]
    /\ load = "idle"
    /\ loadEndedIn = "none"
    /\ page = "absent"
    /\ args = Args(0, 0, PopPayload(0, 0, 0, 0))

----------------------------------------------------------------------------
(* The explorer page *)

\* The state after the first render (page.tsx:11-22), the effect's fetch started.
Init ==
    /\ rows = <<>>
    /\ jsonData = <<>>
    /\ jsonKeys = <<>>
    /\ q = <<>>
    /\ columnFilters = EmptyMap
    /\ columnExactMatch = EmptyMap
    /\ visibleColumns = EmptyMap
    /\ editingRowId = NoId
    /\ editingData = <<>>
    /\ editedRows = {}
    /\ editingEnabled = FALSE
    /\ pending = {Async("initialFetch", 0)}
    /\ alerts = FALSE
    /\ editTarget = 0
    /\ steps = 0
    /\ lastOp = Op("mount", NoId, -1)
    /\ DemoNotMounted

\* Texts and keys the user's input is drawn from in the page's state machine
QueryTexts == {<<>>, <<"b">>}
FilterTexts == {<<"1">>}
FilterKeys == {"tier"}
ColumnKeys == {"id"}
EditKeys == {"id"}

\* One more handler or completion of the explorer page runs; the demo page
\* is not on display.
Tick == steps < MaxSteps /\ steps' = steps + 1 /\ UNCHANGED demoVars

Next ==
    \/ \E text \in QueryTexts : Tick /\ SetQ(text)
    \/ \E key \in FilterKeys, text \in FilterTexts : Tick /\ SetColumnFilter(key, text)
    \/ \E key \in FilterKeys : Tick /\ ToggleExactMatch(key)
    \/ Tick /\ ClearFilters
    \/ Tick /\ SetEditingEnabled
    \/ \E key \in ColumnKeys : Tick /\ ToggleColumn(key)
    \/ Tick /\ ShowAll
    \/ \E k \in 1..Len(rows) : Tick /\ ClickEdit(k)
    \/ Tick /\ ClickSave
    \/ Tick /\ ClickCancel
    \/ \E key \in EditKeys, text \in EditPool : Tick /\ EditCell(key, text)
    \/ \E f \in 1..Len(ImportPool) : Tick /\ Import(f)
    \/ \E f \in 1..Len(ImportPool) : Tick /\ FileReadDone(f)
    \/ Tick /\ Export
    \/ \E ok \in BOOLEAN : Tick /\ InitialFetchDone(ok)
    \/ \E confirmed \in BOOLEAN : Tick /\ ResetEdits(confirmed)
    \/ \E ok \in BOOLEAN : Tick /\ ResetFetchDone(ok)

Spec == Init /\ [][Next]_vars

----------------------------------------------------------------------------
(* The filter as a function of the collection and the filter state *)

\* A collection loaded and every column shown (Show All), no filter set.
InitFilter ==
    /\ rows \in Collections
    /\ jsonData = rows
    /\ jsonKeys = allKeys(rows)
    /\ q = <<>>
    /\ columnFilters = EmptyMap
    /\ columnExactMatch = EmptyMap
    /\ visibleColumns = [k \in Range(allKeys(rows)) |-> TRUE]
    /\ editingRowId = NoId
    /\ editingData = <<>>
    /\ editedRows = {}
    /\ editingEnabled = FALSE
    /\ pending = {}
    /\ alerts = FALSE
    /\ editTarget = 0
    /\ steps = 0
    /\ lastOp = Op("mount", NoId, -1)
    /\ DemoNotMounted

NextFilter ==
    \/ \E text \in QueryPool : UNCHANGED <<steps, demoVars>> /\ SetQ(text)
    \/ \E key \in FilterPool, text \in PatternPool : UNCHANGED <<steps, demoVars>> /\ SetColumnFilter(key, text)
    \/ \E key \in FilterPool : UNCHANGED <<steps, demoVars>> /\ ToggleExactMatch(key)
    \/ UNCHANGED <<steps, demoVars>> /\ ClearFilters

SpecFilter == InitFilter /\ [][NextFilter]_vars


----------------------------------------------------------------------------
(* Properties of the filtered view, checked under SpecFilter *)

\* Pairs of an upper-case letter and its lower-case letter
CasePairs == {<<"A", "a">>, <<"B", "b">>, <<"X", "x">>, <<"Y", "y">>,
              <<"O", "o">>, <<"U", "u">>, <<"L", "l">>}

\* Two characters are the same up to case.
SameLetter(c, d) == c = d \/ <<c, d>> \in CasePairs \/ <<d, c>> \in CasePairs

\* s and t are equal up to case.
EqualIgnoringCase(s, t) ==
    Len(s) = Len(t) /\ \A i \in 1..Len(s) : SameLetter(s[i], t[i])

\* pat occurs in s at some offset, up to case.
ContainsIgnoringCase(s, pat) ==
    \E off \in 0..(Len(s) - Len(pat)) :
        \A j \in 1..Len(pat) : SameLetter(s[off + j], pat[j])

isScalar(v) == v.kind \in {"number", "string", "boolean"}

\* The text a value is compared by in substring mode.
TextOf(v) ==
    IF isArray(v) THEN join(v.a, <<" ">>)
    ELSE IF v.kind = "object" THEN stringify(v)
    ELSE ToStr(v)

\* A value matches a non-empty pattern in substring mode.
MatchesSubstring(v, pat) == ~isNullish(v) /\ ContainsIgnoringCase(TextOf(v), pat)

\* A value matches a non-empty pattern in exact mode.
MatchesExact(v, pat) ==
    /\ ~isNullish(v)
    /\ IF isArray(v)
       THEN \E i \in 1..Len(v.a) : EqualIgnoringCase(ToStr(v.a[i]), pat)
       ELSE EqualIgnoringCase(TextOf(v), pat)

\* The positions of rows that are displayed
Shown == Range(filterPositions(rows))

\* The exact-match flag of column key is set.
ExactOn(key) == key \in DOMAIN columnExactMatch /\ columnExactMatch[key]

\* The columns with a non-empty pattern
ActiveFilters == {key \in DOMAIN columnFilters : columnFilters[key] # <<>>}

\* C1: a record is in the filtered list iff the global query is empty or one
\* of its known fields matches it in substring mode, and every column with a
\* non-empty pattern matches in that column's mode; the global query uses
\* substring mode whatever the exact-match flags are.
C1_FilterIsGlobalOrAndColumns ==
    LET shown == Shown IN
        \A i \in 1..Len(rows) :
            i \in shown <=>
                /\ \/ q = <<>>
                   \/ \E n \in 1..Len(jsonKeys) : MatchesSubstring(Get(rows[i], jsonKeys[n]), q)
                /\ \A key \in ActiveFilters :
                      IF ExactOn(key)
                      THEN MatchesExact(Get(rows[i], key), columnFilters[key])
                      ELSE MatchesSubstring(Get(rows[i], key), columnFilters[key])

\* C1 witness: a global query and two column filters, one of them exact, are
\* set, one record passes and another is filtered out.
C1_Witness ==
    /\ q # <<>>
    /\ Cardinality(ActiveFilters) >= 2
    /\ \E key \in ActiveFilters : key \in DOMAIN columnExactMatch /\ columnExactMatch[key]
    /\ \E key \in ActiveFilters : ~(key \in DOMAIN columnExactMatch /\ columnExactMatch[key])
    /\ Shown # {}
    /\ Shown # 1..Len(rows)

\* xs is ys with some elements left out, the order kept.
IsSubsequence(xs, ys) ==
    \E f \in [1..Len(xs) -> 1..Len(ys)] :
        /\ \A k \in 1..Len(xs) : xs[k] = ys[f[k]]
        /\ \A k, l \in 1..Len(xs) : k < l => f[k] < f[l]

\* C2: the filtered list is a subsequence of the collection, and filtering the
\* filtered list again with the same filter state yields the filtered list.
C2_SubsequenceAndIdempotent ==
    /\ IsSubsequence(filtered, rows)
    /\ filterRows(filtered) = filtered

\* C2 witness: the filter keeps some records and drops the first one.
C2_Witness ==
    /\ Len(filtered) >= 1
    /\ Len(filtered) < Len(rows)
    /\ filtered[1] # rows[1]
    /\ (q # <<>> \/ ActiveFilters # {})

\* The filter state holds only the pattern of column key.
OnlyFilter(key) == q = <<>> /\ ActiveFilters = {key}

\* C3: with a pattern on a single scalar column, a record is shown iff its
\* value's text contains the pattern (substring mode) or equals it (exact
\* mode), up to case.
C3_ScalarSubstringOrExact ==
    LET shown == Shown IN
        \A key \in DOMAIN columnFilters :
            OnlyFilter(key) =>
                \A i \in 1..Len(rows) :
                    isScalar(Get(rows[i], key)) =>
                        (i \in shown <=>
                            IF ExactOn(key)
                            THEN EqualIgnoringCase(ToStr(Get(rows[i], key)), columnFilters[key])
                            ELSE ContainsIgnoringCase(ToStr(Get(rows[i], key)), columnFilters[key]))

\* C3 witness: the pattern "1" on tier in exact mode keeps a record whose tier
\* is 1 and drops a record whose tier is 10.
C3_Witness ==
    /\ "tier" \in DOMAIN columnFilters
    /\ OnlyFilter("tier")
    /\ columnFilters["tier"] = <<"1">>
    /\ ExactOn("tier")
    /\ \E i \in 1..Len(rows) : Get(rows[i], "tier") = Num(10) /\ i \notin Shown
    /\ \E i \in 1..Len(rows) : Get(rows[i], "tier") = Num(1) /\ i \in Shown

\* C4: a record whose value for a column is null or absent is not shown while
\* that column has a non-empty pattern, in either mode; and a record shown
\* under a non-empty global query has a known field that is neither null nor
\* absent and matches it.
C4_NullNeverMatches ==
    LET shown == Shown IN
        \A i \in 1..Len(rows) :
            /\ \A key \in ActiveFilters : isNullish(Get(rows[i], key)) => i \notin shown
            /\ (q # <<>> /\ i \in shown) =>
                  \E n \in 1..Len(jsonKeys) :
                      /\ ~isNullish(Get(rows[i], jsonKeys[n]))
                      /\ ContainsIgnoringCase(TextOf(Get(rows[i], jsonKeys[n])), q)

\* C4 witness: a column with a non-empty pattern for which one record holds
\* null and another record has no value at all; neither is shown.
C4_Witness ==
    \E key \in ActiveFilters :
        /\ \E i \in 1..Len(rows) : Get(rows[i], key) = Null /\ i \notin Shown
        /\ \E i \in 1..Len(rows) : Get(rows[i], key) = Undefined /\ i \notin Shown

\* C5: with a pattern on a single column, a record whose value is a sequence
\* is shown iff the pattern occurs, up to case, in the elements joined by one
\* space (substring mode), or equals, up to case, one element (exact mode).
C5_SequenceJoinOrAnyElement ==
    LET shown == Shown IN
        \A key \in DOMAIN columnFilters :
            OnlyFilter(key) =>
                \A i \in 1..Len(rows) :
                    LET v == Get(rows[i], key) IN
                    isArray(v) =>
                        (i \in shown <=>
                            IF ExactOn(key)
                            THEN \E n \in 1..Len(v.a) :
                                    EqualIgnoringCase(ToStr(v.a[n]), columnFilters[key])
                            ELSE ContainsIgnoringCase(JoinWith([n \in 1..Len(v.a) |->
                                                         IF isNullish(v.a[n]) THEN <<>>
                                                         ELSE ToStr(v.a[n])], <<" ">>, 1),
                                                      columnFilters[key]))

\* C5 witness: the pattern "u L" on tags in substring mode keeps a record
\* whose tags are "u" and "l", which no single element contains.
C5_Witness ==
    /\ "tags" \in DOMAIN columnFilters
    /\ OnlyFilter("tags")
    /\ columnFilters["tags"] = <<"u", " ", "L">>
    /\ ~ExactOn("tags")
    /\ \E i \in 1..Len(rows) :
          /\ Get(rows[i], "tags") = Arr(<<Str(<<"u">>), Str(<<"l">>)>>)
          /\ i \in Shown


----------------------------------------------------------------------------
(* Properties of the edit overlay, checked under Spec *)

\* Edit is clicked on the k-th displayed row while a session is open.
BeginEditWhileOpen(k) == editingRowId # NoId /\ ClickEdit(k)

C7_AtMostOneRowEditing ==
    Cardinality({k \in 1..Len(filtered) : isEditing(k)}) <= 1

\* C8: saveEdit replaces, with the draft, the record at the position of the
\* row whose Edit button was clicked, and no other record.
C8_SaveReplacesChosenRow ==
    [][(ClickSave /\ editTarget # 0) =>
          rows' = [rows EXCEPT ![editTarget] = editingData]]_vars

\* C9: after saveEdit has replaced a record, the identity derived for the
\* record now at that position is in the edited set.
C9_SavedRowIsMarkedEdited ==
    (lastOp.op = "saveEdit" /\ lastOp.idx # -1) =>
        getRowId(rows[lastOp.idx + 1], lastOp.idx) \in editedRows

\* The identity derived for the record at position i of the collection, as
\* row rendering and startEditing derive it.
derivedId(i) == getRowId(rows[i], findIndexByContent(rows, rows[i]))

\* C10: the identities derived for two records at different positions of the
\* collection differ, also when the two records have the same content.
C10_IdentitiesDifferByPosition ==
    \A i, j \in 1..Len(rows) : i # j => derivedId(i) # derivedId(j)

----------------------------------------------------------------------------
(* The edit functions called one after another on a loaded collection, each
   whenever it can be called: startEditing on any row, saveEdit and cancelEdit
   with or without a session, updateEditingField while a session is open
   (the cells of the row being edited are the only callers, page.tsx:617-666). *)

\* The collections of up to MaxRows records, records of the same content included
EditCollections == UNION {[1..n -> {R1, R2}] : n \in 1..MaxRows}

InitEdit ==
    /\ rows \in EditCollections
    /\ jsonData = rows
    /\ jsonKeys = allKeys(rows)
    /\ q = <<>>
    /\ columnFilters = EmptyMap
    /\ columnExactMatch = EmptyMap
    /\ visibleColumns = defaultVisible(allKeys(rows))
    /\ editingRowId = NoId
    /\ editingData = <<>>
    /\ editedRows = {}
    /\ editingEnabled = TRUE
    /\ pending = {}
    /\ alerts = FALSE
    /\ editTarget = 0
    /\ steps = 0
    /\ lastOp = Op("mount", NoId, -1)
    /\ DemoNotMounted

\* What the edit functions leave alone
EditFrame ==
    UNCHANGED <<jsonKeys, q, columnFilters, columnExactMatch, visibleColumns,
                editingEnabled, pending, alerts>>

CallStartEditing(i) ==
    /\ i \in 1..Len(rows)
    /\ startEditing(rows[i])
    /\ editTarget' = i
    /\ lastOp' = Op("startEditing", editingRowId, findIndexByContent(rows, rows[i]))
    /\ UNCHANGED <<rows, jsonData, editedRows>>
    /\ EditFrame

CallUpdateEditingField(key, text) ==
    /\ editingRowId # NoId
    /\ updateEditingField(key, Str(text))
    /\ lastOp' = Op("updateEditingField", editingRowId, -1)
    /\ UNCHANGED <<rows, jsonData, editedRows, editingRowId, editTarget>>
    /\ EditFrame

CallSaveEdit ==
    /\ saveEdit
    /\ editTarget' = 0
    /\ lastOp' = Op("saveEdit", editingRowId, findIndexById(rows, editingRowId))
    /\ EditFrame

CallCancelEdit ==
    /\ cancelEdit
    /\ editTarget' = 0
    /\ lastOp' = Op("cancelEdit", editingRowId, -1)
    /\ UNCHANGED <<rows, jsonData, editedRows>>
    /\ EditFrame

NextEdit ==
    \/ \E i \in 1..Len(rows) : Tick /\ CallStartEditing(i)
    \/ \E key \in EditKeys, text \in EditPool : Tick /\ CallUpdateEditingField(key, text)
    \/ Tick /\ CallSaveEdit
    \/ Tick /\ CallCancelEdit

SpecEdit == InitEdit /\ [][NextEdit]_vars

----------------------------------------------------------------------------
(* Properties of cancelEdit and saveEdit, checked under SpecEdit *)

\* C11: cancelEdit closes the session and drops the draft; startEditing,
\* updateEditingField and cancelEdit leave the collection, the export
\* snapshot and the edited set as they were; cancelEdit with no session open
\* changes nothing.
C11_CancelDiscardsDraftOnly ==
    [][/\ CallCancelEdit =>
            /\ editingRowId' = NoId
            /\ editingData' = <<>>
       /\ (CallCancelEdit /\ editingRowId = NoId) =>
            UNCHANGED <<editingRowId, editingData>>
       /\ (\/ CallCancelEdit
           \/ \E i \in 1..Len(rows) : CallStartEditing(i)
           \/ \E key \in EditKeys, text \in EditPool :
                 CallUpdateEditingField(key, text)) =>
            /\ rows' = rows
            /\ jsonData' = jsonData
            /\ dataToExport' = dataToExport
            /\ editedRows' = editedRows]_vars

\* C11 witness: cancelEdit has just closed an open session on a collection
\* in which no edit was committed.
C11_Witness ==
    /\ lastOp.op = "cancelEdit"
    /\ lastOp.id # NoId
    /\ editingRowId = NoId
    /\ editingData = <<>>
    /\ rows \in EditCollections
    /\ editedRows = {}

\* C12: saveEdit called with no session open leaves the collection, the
\* edited set and the (closed) session as they were.
C12_SaveWithoutSessionChangesNothing ==
    [][(CallSaveEdit /\ editingRowId = NoId) =>
          /\ rows' = rows
          /\ jsonData' = jsonData
          /\ editedRows' = editedRows
          /\ editingRowId' = NoId
          /\ editingData' = editingData]_vars

\* C12 witness: saveEdit has just run with no session open, after an earlier
\* session on the collection.
C12_Witness ==
    /\ lastOp.op = "saveEdit"
    /\ lastOp.id = NoId
    /\ steps >= 3
    /\ editingRowId = NoId
    /\ rows \in EditCollections
    /\ editedRows = {}

----------------------------------------------------------------------------
(* Properties of loading, import and export, checked under Spec *)

\* A load completes: processJsonData runs with the fixture, with the records
\* of an imported file, or with [] after a failed initial fetch.
LoadCompletes ==
    \/ \E ok \in BOOLEAN : InitialFetchDone(ok)
    \/ \E f \in 1..Len(ImportPool) : ImportPool[f].valid /\ FileReadDone(f)
    \/ ResetFetchDone(TRUE)

\* C13: right after every load no edit session is open, no draft is held and
\* the edited set is empty.
C13_LoadClearsEditOverlay ==
    [][LoadCompletes =>
          /\ editingRowId' = NoId
          /\ editingData' = <<>>
          /\ editedRows' = {}]_vars

\* C14: a load leaves the search text, every column filter and every
\* exact-match flag as they were.
C14_LoadKeepsFilterState ==
    [][LoadCompletes =>
          /\ q' = q
          /\ columnFilters' = columnFilters
          /\ columnExactMatch' = columnExactMatch]_vars

\* C14 witness: an import has just loaded a collection while a column filter
\* with a pattern is set on a field the new collection does not have.
C14_Witness ==
    /\ lastOp.op = "importLoaded"
    /\ rows # <<>>
    /\ \E k \in DOMAIN columnFilters :
          /\ columnFilters[k] # <<>>
          /\ k \notin Range(jsonKeys)

\* C17: what Export serializes is the whole collection in order, whatever
\* the filter shows and whatever draft is open.
C17_ExportIsWholeCollection == dataToExport = rows

\* C17 witness: an edit has been committed into the collection and the
\* filter hides some of its rows.
C17_Witness ==
    /\ editedRows # {}
    /\ rows # Fixture
    /\ Len(rows) = 2
    /\ Len(filtered) < Len(rows)
    /\ dataToExport = rows

\* C18: a parsed value that is not an array becomes a collection of that one
\* record, with the record's keys as the known fields; an array's elements
\* become the collection, in order.
C18_ImportWrapsSingleObject ==
    [][\A f \in 1..Len(ImportPool) :
          (ImportPool[f].valid /\ FileReadDone(f)) =>
              LET v == ImportPool[f].value IN
              IF v.kind = "array"
              THEN /\ Len(rows') = Len(v.a)
                   /\ \A i \in 1..Len(v.a) : rows'[i] = v.a[i].o
              ELSE /\ rows' = <<v.o>>
                   /\ jsonKeys' = [i \in 1..Len(v.o) |-> v.o[i].k]]_vars

\* C18 witness: the import of {"a": 1} has just loaded one record with the
\* known field a.
C18_Witness ==
    /\ lastOp.op = "importLoaded"
    /\ rows = <<R4>>
    /\ jsonKeys = <<"a">>

\* C19: an import of a text that is not JSON alerts and leaves the
\* collection, the known fields, the column visibility, the filter state and
\* the edit overlay as they were.
C19_MalformedImportKeepsState ==
    [][\A f \in 1..Len(ImportPool) :
          (~ImportPool[f].valid /\ FileReadDone(f)) =>
              /\ alerts'
              /\ rows' = rows
              /\ jsonData' = jsonData
              /\ jsonKeys' = jsonKeys
              /\ visibleColumns' = visibleColumns
              /\ q' = q
              /\ columnFilters' = columnFilters
              /\ columnExactMatch' = columnExactMatch
              /\ editingRowId' = editingRowId
              /\ editingData' = editingData
              /\ editedRows' = editedRows]_vars

\* C19 witness: an import has just been rejected while a collection was
\* loaded and an edit session was open.
C19_Witness ==
    /\ lastOp.op = "importRejected"
    /\ alerts
    /\ rows # <<>>
    /\ editingRowId # NoId

\* C20: after the initial fetch has failed the collection, the known fields
\* and the column visibility are empty, nothing is displayed and the fetch is
\* not started again.
C20_InitialFailureEmptiesCollection ==
    lastOp.op = "initialFailed" =>
        /\ rows = <<>>
        /\ jsonData = <<>>
        /\ jsonKeys = <<>>
        /\ visibleColumns = EmptyMap
        /\ filtered = <<>>
        /\ Async("initialFetch", 0) \notin pending

\* C20 witness: the initial fetch has failed and left an empty collection.
C20_Witness ==
    /\ lastOp.op = "initialFailed"
    /\ rows = <<>>
    /\ jsonKeys = <<>>

----------------------------------------------------------------------------
(* processJsonData as a function of the records it is given.  It reads no
   state, so it is applied to each input on a page with no collection, and
   with [] on any page. *)

LoadPool == {R1, R2, R3, R4, R5}

\* The collections of up to MaxLoad records of the pool
LoadCollections == UNION {[1..n -> LoadPool] : n \in 1..MaxLoad}

InitLoad ==
    /\ rows = <<>>
    /\ jsonData = <<>>
    /\ jsonKeys = <<>>
    /\ q = <<>>
    /\ columnFilters = EmptyMap
    /\ columnExactMatch = EmptyMap
    /\ visibleColumns = EmptyMap
    /\ editingRowId = NoId
    /\ editingData = <<>>
    /\ editedRows = {}
    /\ editingEnabled = FALSE
    /\ pending = {}
    /\ alerts = FALSE
    /\ editTarget = 0
    /\ steps = 0
    /\ lastOp = Op("mount", NoId, -1)
    /\ DemoNotMounted

\* processJsonData(data) is called.
Load(data) ==
    /\ processJsonData(data)
    /\ lastOp' = Op("load", NoId, Len(data))
    /\ UNCHANGED <<editingRowId, editingData, editedRows, editingEnabled,
                   pending, alerts, editTarget, steps, demoVars>>

NextLoad ==
    \/ \E data \in LoadCollections : rows = <<>> /\ Load(data)
    \/ Load(<<>>)

SpecLoad == InitLoad /\ [][NextLoad]_vars

----------------------------------------------------------------------------
(* Properties of processJsonData, checked under SpecLoad *)

\* The first record of the collection that has the key, and the key's place
\* in that record
FirstRecordWith(key) ==
    CHOOSE r \in 1..Len(rows) :
        /\ HasKey(rows[r], key)
        /\ \A r2 \in 1..(r - 1) : ~HasKey(rows[r2], key)

PlaceIn(r, key) == CHOOSE c \in 1..Len(rows[r]) : rows[r][c].k = key

AppearsBefore(a, b) ==
    \/ FirstRecordWith(a) < FirstRecordWith(b)
    \/ /\ FirstRecordWith(a) = FirstRecordWith(b)
       /\ PlaceIn(FirstRecordWith(a), a) < PlaceIn(FirstRecordWith(b), b)

\* C15: after a load the known fields are the keys of all the records, each
\* once, in the order in which they first appear.
C15_KnownFieldsAreOrderedUnion ==
    /\ \A i, j \in 1..Len(jsonKeys) : i # j => jsonKeys[i] # jsonKeys[j]
    /\ Range(jsonKeys) =
          UNION {{rows[r][c].k : c \in 1..Len(rows[r])} : r \in 1..Len(rows)}
    /\ \A i, j \in 1..Len(jsonKeys) :
          i < j => AppearsBefore(jsonKeys[i], jsonKeys[j])

\* C15 witness: a second record brought a new key and repeated earlier ones
\* in another order.
C15_Witness ==
    /\ rows = <<R3, R1>>
    /\ jsonKeys = <<"tier", "id", "meta", "tags">>

\* C16: after the load of a collection that is not empty, visibility is
\* defined for exactly the known fields; with a priority column among them a
\* field is visible iff it is a priority column, otherwise iff it is one of
\* the first six known fields.
C16_DefaultVisibility ==
    rows # <<>> =>
        LET five == {"indicator", "title", "tier", "ladmLink", "externalData"} IN
        /\ DOMAIN visibleColumns = Range(jsonKeys)
        /\ IF Range(jsonKeys) \cap five # {}
           THEN \A k \in Range(jsonKeys) : visibleColumns[k] <=> k \in five
           ELSE \A i \in 1..Len(jsonKeys) : visibleColumns[jsonKeys[i]] <=> i <= 6

\* C16 witness: more than six known fields, none a priority column: the
\* sixth is visible and the seventh is not.
C16_Witness ==
    /\ Len(jsonKeys) > 6
    /\ Range(jsonKeys) \cap priorityColumns = {}
    /\ visibleColumns[jsonKeys[6]]
    /\ ~visibleColumns[jsonKeys[7]]

----------------------------------------------------------------------------
(* computeRates as a function of its arguments *)

\* Areas in square metres: negative, zero and positive
AreaPool == {-1, 0, 100, 200}

\* Populations: negative, zero and positive
PopulationPool == {-1, 0, 1000, 1100}

\* Years of the two observations
YearPool == {1999, 2000, 2001, 2010}

ArgPool ==
    {Args(areaT, areaTN, PopPayload(t, t_n, population_t, population_tn)) :
        areaT \in AreaPool, areaTN \in AreaPool, t \in YearPool, t_n \in YearPool,
        population_t \in PopulationPool, population_tn \in PopulationPool}

\* What no action of the demo page writes while the explorer is not shown
ExplorerUnchanged ==
    UNCHANGED <<rows, jsonData, jsonKeys, q, columnFilters, columnExactMatch,
                visibleColumns, editingRowId, editingData, editedRows,
                editingEnabled, pending, alerts, editTarget, steps, lastOp>>

\* The explorer page is not the page on display.
ExplorerNotMounted ==
    /\ rows = <<>>
    /\ jsonData = <<>>
    /\ jsonKeys = <<>>
    /\ q = <<>>
    /\ columnFilters = EmptyMap
    /\ columnExactMatch = EmptyMap
    /\ visibleColumns = EmptyMap
    /\ editingRowId = NoId
    /\ editingData = <<>>
    /\ editedRows = {}
    /\ editingEnabled = FALSE
    /\ pending = {}
    /\ alerts = FALSE
    /\ editTarget = 0
    /\ steps = 0
    /\ lastOp = Op("none", NoId, -1)

InitRates ==
    /\ ExplorerNotMounted
    /\ stats = NoStats
    /\ meta = NoMeta
    /\ error = NoError
    /\ mapRef = 0
    /\ containerRef = FALSE
    /\ maps = {}
    /\ fetches = [i \in Files |-> "idle"]
    /\ load = "idle"
    /\ loadEndedIn = "none"
    /\ page = "absent"
    /\ args \in ArgPool

\* statsObj = computeRates(areaT, areaTN, pop)
CallComputeRates ==
    /\ stats = NoStats
    /\ stats' = computeRates(args.areaT, args.areaTN, args.pop)
    /\ UNCHANGED <<meta, error, mapRef, containerRef, maps, fetches, load,
                   loadEndedIn, page, args>>
    /\ ExplorerUnchanged

NextRates == CallComputeRates

SpecRates == InitRates /\ [][NextRates]_vars

----------------------------------------------------------------------------
(* Properties of computeRates, checked under SpecRates *)

\* C21: years is t_n - t when that is at least 1 and 1 otherwise, so it is
\* at least 1 and the rates that are computed divide by a number that is not 0.
C21_YearsClampedToOne ==
    stats # NoStats =>
        LET span == args.pop.t_n - args.pop.t IN
        /\ span >= 1 => stats.years = span
        /\ span < 1 => stats.years = 1
        /\ stats.years >= 1
        /\ stats.lcr.defined => stats.lcr.years >= 1
        /\ stats.pgr.defined => stats.pgr.years >= 1

\* C21 witness: computeRates has run with t_n earlier than t and years is 1.
C21_Witness ==
    /\ stats # NoStats
    /\ args.pop.t_n < args.pop.t
    /\ stats.years = 1
    /\ stats.lcr.defined

\* C22: lcr is defined iff both areas are positive and pgr iff both
\* populations are positive; a rate that is not defined is null, not 0.
C22_RatesDefinedIffPositive ==
    stats # NoStats =>
        /\ stats.lcr.defined <=> (args.areaT > 0 /\ args.areaTN > 0)
        /\ stats.pgr.defined <=>
              (args.pop.population_t > 0 /\ args.pop.population_tn > 0)
        /\ ~stats.lcr.defined => stats.lcr = NoRate
        /\ ~stats.pgr.defined => stats.pgr = NoRate
        /\ stats.lcr.defined =>
              /\ stats.lcr.num = args.areaTN
              /\ stats.lcr.den = args.areaT
        /\ stats.pgr.defined =>
              /\ stats.pgr.num = args.pop.population_tn
              /\ stats.pgr.den = args.pop.population_t

\* C22 witness: computeRates(0, 200, {2000, 2010, 1000, 1100}) has lcr null
\* and pgr defined.
C22_Witness ==
    /\ stats # NoStats
    /\ args = Args(0, 200, PopPayload(2000, 2010, 1000, 1100))
    /\ ~stats.lcr.defined
    /\ stats.pgr.defined
    /\ stats.pgr.num # stats.pgr.den

\* C23: ratio is defined, and is lcr / pgr, iff lcr and pgr are defined and
\* pgr is not 0, which is when the two populations differ.
C23_RatioDefinedIffPgrNonZero ==
    stats # NoStats =>
        LET pgrIsZero == args.pop.population_tn = args.pop.population_t IN
        /\ stats.ratio.defined <=>
              (stats.lcr.defined /\ stats.pgr.defined /\ ~pgrIsZero)
        /\ stats.ratio.defined =>
              /\ stats.ratio.lcr = stats.lcr
              /\ stats.ratio.pgr = stats.pgr
        /\ ~stats.lcr.defined => ~stats.ratio.defined

\* C23 witness: computeRates(100, 100, {2000, 2010, 1000, 1000}) has years 10,
\* lcr 0, pgr 0 and ratio null.
C23_Witness ==
    /\ stats # NoStats
    /\ args = Args(100, 100, PopPayload(2000, 2010, 1000, 1000))
    /\ stats.years = 10
    /\ stats.lcr.defined /\ stats.lcr.num = stats.lcr.den
    /\ stats.pgr.defined /\ stats.pgr.num = stats.pgr.den
    /\ ~stats.ratio.defined

----------------------------------------------------------------------------
(* The load effect of the rate demo page and its cleanup
   (demo-1131/page.tsx:235-333).  The effect runs once, after the first
   commit: the container is attached and the four fetches are started.
   `page` follows React: "mounted", then "detached" once the unmount is
   committed (React sets the ref of the removed node to null and drops the
   component's state), then "unmounted" once the effect's cleanup has run. *)

\* setError('Demo verisi yüklenirken sorun oluştu.') (demo-1131/page.tsx:322)
GenericError == "Demo verisi yuklenirken sorun olustu."

\* The fixtures' built-up areas and population payload
DemoArgPool ==
    {Args(100, 200, PopPayload(2000, 2010, 1000, 1100)),
     Args(0, 200, PopPayload(2000, 2010, 1000, 1000))}

\* A state setter called with a value: the update of a component that is no
\* longer mounted is dropped.
set(current, value) == IF page = "mounted" THEN value ELSE current

\* A join that waits until every promise has settled, fulfilled or rejected.
allSettled(status) == \A i \in Files : fetches[i] \in {status, "failed"}

\* await Promise.all([...]) resumes: every promise of the array is fulfilled.
allFulfilled(status) == \A i \in Files : fetches[i] = status

\* The map created whether or not the container is attached.
canCreateMapAlways == TRUE

\* if (containerRef.current) (demo-1131/page.tsx:265)
canCreateMap == containerRef

\* metrics (demo-1131/page.tsx:335-345): null, or the values on display
NoMetrics == [absent |-> TRUE]

metrics ==
    IF stats = NoStats \/ meta = NoMeta
    THEN NoMetrics
    ELSE [absent |-> FALSE, t |-> meta.t, t_n |-> meta.t_n,
          area_t_m2 |-> stats.area_t_m2, area_tn_m2 |-> stats.area_tn_m2,
          years |-> stats.years, lcr |-> stats.lcr, pgr |-> stats.pgr,
          ratio |-> stats.ratio]

InitDemo ==
    /\ ExplorerNotMounted
    /\ stats = NoStats
    /\ meta = NoMeta
    /\ error = NoError
    /\ mapRef = 0
    /\ containerRef = TRUE
    /\ maps = {}
    /\ fetches = [i \in Files |-> "fetching"]
    /\ load = "fetching"
    /\ loadEndedIn = "none"
    /\ page = "mounted"
    /\ args \in DemoArgPool

\* One of the four fetch(...) promises settles (demo-1131/page.tsx:239-244).
FetchSettles(i, ok) ==
    /\ fetches[i] = "fetching"
    /\ fetches' = [fetches EXCEPT ![i] = IF ok THEN "fetched" ELSE "failed"]
    /\ UNCHANGED <<stats, meta, error, mapRef, containerRef, maps, load,
                   loadEndedIn, page, args>>
    /\ ExplorerUnchanged

\* The first await resumes and the four json() parses are started
\* (demo-1131/page.tsx:246-251).
FetchesJoined ==
    /\ load = "fetching"
    /\ allFulfilled("fetched")
    /\ load' = "parsing"
    /\ fetches' = [i \in Files |-> "parsing"]
    /\ UNCHANGED <<stats, meta, error, mapRef, containerRef, maps,
                   loadEndedIn, page, args>>
    /\ ExplorerUnchanged

\* One of the four json() promises settles.
ParseSettles(i, ok) ==
    /\ fetches[i] = "parsing"
    /\ fetches' = [fetches EXCEPT ![i] = IF ok THEN "parsed" ELSE "failed"]
    /\ UNCHANGED <<stats, meta, error, mapRef, containerRef, maps, load,
                   loadEndedIn, page, args>>
    /\ ExplorerUnchanged

\* The second await resumes and the rest of the try block runs
\* (demo-1131/page.tsx:253-319): setMeta, the areas, computeRates, setStats
\* and the map.  shapeOk: the parsed collections have a features array
\* (sumArea throws otherwise); mapOk: the Map constructor returns.
ParsesJoined(shapeOk, mapOk) ==
    /\ load = "parsing"
    /\ allFulfilled("parsed")
    /\ meta' = set(meta, args.pop)
    /\ loadEndedIn' = page
    /\ IF ~shapeOk
       THEN /\ error' = set(error, GenericError)
            /\ load' = "failed"
            /\ UNCHANGED <<stats, maps, mapRef>>
       ELSE /\ stats' = set(stats, computeRates(args.areaT, args.areaTN, args.pop))
            /\ IF canCreateMap
               THEN IF mapOk
                    THEN /\ maps' = maps \cup {1}
                         /\ mapRef' = 1
                         /\ load' = "done"
                         /\ UNCHANGED error
                    ELSE /\ error' = set(error, GenericError)
                         /\ load' = "failed"
                         /\ UNCHANGED <<maps, mapRef>>
               ELSE /\ load' = "done"
                    /\ UNCHANGED <<error, maps, mapRef>>
    /\ UNCHANGED <<containerRef, fetches, page, args>>
    /\ ExplorerUnchanged

\* A Promise.all rejects and the catch block runs (demo-1131/page.tsx:320-323).
LoadFails ==
    /\ load \in {"fetching", "parsing"}
    /\ \E i \in Files : fetches[i] = "failed"
    /\ error' = set(error, GenericError)
    /\ load' = "failed"
    /\ loadEndedIn' = page
    /\ UNCHANGED <<stats, meta, mapRef, containerRef, maps, fetches, page, args>>
    /\ ExplorerUnchanged

\* The page is left: React commits the unmount and detaches the container ref.
Unmount ==
    /\ page = "mounted"
    /\ page' = "detached"
    /\ containerRef' = FALSE
    /\ UNCHANGED <<stats, meta, error, mapRef, maps, fetches, load,
                   loadEndedIn, args>>
    /\ ExplorerUnchanged

\* The effect's cleanup (demo-1131/page.tsx:326-332)
Cleanup ==
    /\ page = "detached"
    /\ page' = "unmounted"
    /\ IF mapRef # 0
       THEN /\ maps' = maps \ {mapRef}
            /\ mapRef' = 0
       ELSE UNCHANGED <<maps, mapRef>>
    /\ UNCHANGED <<stats, meta, error, containerRef, fetches, load,
                   loadEndedIn, args>>
    /\ ExplorerUnchanged

NextDemo ==
    \/ \E i \in Files, ok \in BOOLEAN : FetchSettles(i, ok)
    \/ FetchesJoined
    \/ \E i \in Files, ok \in BOOLEAN : ParseSettles(i, ok)
    \/ \E shapeOk \in BOOLEAN, mapOk \in BOOLEAN : ParsesJoined(shapeOk, mapOk)
    \/ LoadFails
    \/ Unmount
    \/ Cleanup

SpecDemo == InitDemo /\ [][NextDemo]_vars

----------------------------------------------------------------------------
(* Properties of the demo page's load, checked under SpecDemo *)

SomeFailed == \E i \in Files : fetches[i] = "failed"

\* C24: stats and meta are set only when all four fetches and all four
\* parses have succeeded; once a fetch or a parse has failed, stats stay
\* unset and no metrics are displayed, the load never completes, the catch
\* sets the generic error message, and nothing is fetched again.
C24_JoinedBeforeCompute ==
    [][/\ stats' # NoStats => \A i \in Files : fetches'[i] = "parsed"
       /\ meta' # NoMeta => \A i \in Files : fetches'[i] = "parsed"
       /\ SomeFailed' =>
            /\ stats' = NoStats
            /\ metrics' = NoMetrics
            /\ load' # "done"
       /\ (SomeFailed /\ LoadFails /\ page = "mounted") => error' = GenericError
       /\ \A i \in Files : fetches[i] = "failed" => fetches'[i] = "failed"
       /\ load = "failed" => load' = "failed" /\ stats' = stats]_vars

\* C24 witness: one parse failed after another had succeeded, the catch has
\* run on the mounted page: the message is set and nothing is displayed.
C24_Witness ==
    /\ \E i, j \in Files : fetches[i] = "failed" /\ fetches[j] = "parsed"
    /\ load = "failed"
    /\ loadEndedIn = "mounted"
    /\ error = GenericError
    /\ stats = NoStats
    /\ metrics = NoMetrics

\* C25: once the cleanup has run, no map created by the load is left
\* un-removed and the map reference is null.
C25_NoMapAfterUnmount ==
    page = "unmounted" => (maps = {} /\ mapRef = 0)

\* C25 witness: the load completed only after the cleanup had run.
C25_Witness ==
    /\ page = "unmounted"
    /\ load = "done"
    /\ loadEndedIn = "unmounted"
    /\ maps = {}
    /\ mapRef = 0

----------------------------------------------------------------------------
(* Asynchronous completions against later user actions, checked under Spec *)

\* C26: no asynchronous completion overwrites state produced by a user
\* action made after the operation was started: a collection imported while
\* the initial fixture fetch is in flight (the only way the collection is
\* not empty then) is still the current collection, with its known fields
\* and column visibility, after the fetch has completed.
C26_CompletionKeepsLaterUserState ==
    [][((\E ok \in BOOLEAN : InitialFetchDone(ok)) /\ rows # <<>>) =>
          /\ rows' = rows
          /\ jsonData' = jsonData
          /\ jsonKeys' = jsonKeys
          /\ visibleColumns' = visibleColumns]_vars

----------------------------------------------------------------------------
(* The frame of a committed edit, checked under SpecEdit *)

\* saveEdit is called with a session open whose row is found.
CommitsEdit ==
    /\ CallSaveEdit
    /\ editingRowId # NoId
    /\ findIndexById(rows, editingRowId) # -1

\* C27: a successful commit changes one position of the collection: the
\* length is unchanged, every record at another position is unchanged, the
\* replaced record is the one the session was begun on and each of its
\* fields the user did not update keeps its value (all of them when nothing
\* was updated); filter state, known fields and column visibility are
\* unchanged.
C27_CommitChangesOnePosition ==
    [][CommitsEdit =>
         LET p == findIndexById(rows, editingRowId) + 1 IN
         /\ Len(rows') = Len(rows)
         /\ \A i \in 1..Len(rows) : i # p => rows'[i] = rows[i]
         /\ rows[p] = rows[editTarget]
         /\ ObjectKeys(rows'[p]) = ObjectKeys(rows[p])
         /\ \A key \in Range(ObjectKeys(rows[p])) \ EditKeys :
               Get(rows'[p], key) = Get(rows[p], key)
         /\ lastOp.op = "startEditing" => rows'[p] = rows[p]
         /\ UNCHANGED <<q, columnFilters, columnExactMatch, jsonKeys,
                        visibleColumns>>]_vars

\* C27 witness: the id of the first of two records was updated and saved;
\* its other fields and the second record are as they were.
C27_Witness ==
    /\ lastOp.op = "saveEdit"
    /\ lastOp.idx = 0
    /\ rows = <<Put(R1, "id", Str(<<"b">>)), R2>>
    /\ rows[1] # R1
    /\ Get(rows[1], "tier") = Get(R1, "tier")

----------------------------------------------------------------------------
(* The edited set against the collection, checked under Spec *)

\* The positions of the collection whose row is rendered as edited
FlaggedRows == {i \in 1..Len(rows) : derivedId(i) \in editedRows}

\* C28: every identity in the edited set is the derived identity of a record
\* of the current collection, and the "N edited" count equals the number of
\* records flagged as edited.
C28_EditedSetMatchesCollection ==
    /\ \A id \in editedRows : \E i \in 1..Len(rows) : derivedId(i) = id
    /\ Cardinality(editedRows) = Cardinality(FlaggedRows)

----------------------------------------------------------------------------
(* Clear Filters and Reset Edits, checked under Spec *)

\* C29: Clear Filters empties the global query and removes every per-field
\* pattern and exact-match flag, so that the filtered list is the whole
\* collection right after it; it closes an open edit session and discards
\* its draft, and leaves the record collection and the edited set unchanged.
C29_ClearFiltersResetsFiltersAndSession ==
    [][ClearFilters =>
         /\ q' = <<>>
         /\ DOMAIN columnFilters' = {}
         /\ DOMAIN columnExactMatch' = {}
         /\ filtered' = rows'
         /\ editingRowId' = NoId
         /\ editingData' = <<>>
         /\ UNCHANGED <<rows, jsonData, editedRows>>]_vars

\* C29 witness: Clear Filters was clicked with a session open, an edit saved
\* before and the filters hiding a record (lastOp.idx is the number of
\* records that were listed); all records are listed and no session is open.
C29_Witness ==
    /\ lastOp.op = "clearFilters"
    /\ lastOp.id # NoId
    /\ lastOp.idx < Len(rows)
    /\ editedRows # {}
    /\ rows # <<>>
    /\ filtered = rows
    /\ editingRowId = NoId

\* C30: when the fetch started by a confirmed Reset Edits completes with the
\* fixture, the collection is the fixture's records, the edited set is empty
\* and no session is open, and the filter state is unchanged; a confirmed
\* click only starts the fetch, and a declined one changes nothing.
C30_ResetRestoresFixture ==
    [][/\ ResetFetchDone(TRUE) =>
            /\ rows' = Fixture
            /\ jsonData' = Fixture
            /\ editedRows' = {}
            /\ editingRowId' = NoId
            /\ editingData' = <<>>
            /\ UNCHANGED <<q, columnFilters, columnExactMatch>>
       /\ ResetEdits(TRUE) => Async("resetFetch", 0) \in pending'
       /\ ResetEdits(FALSE) =>
            UNCHANGED <<rows, jsonData, jsonKeys, q, columnFilters,
                        columnExactMatch, visibleColumns, editingRowId,
                        editingData, editedRows, editingEnabled, pending,
                        alerts>>]_vars

\* C30 witness: the reset's fetch has completed after an edit was saved and
\* with a query typed in: the fixture is back, nothing is marked as edited
\* and the query is still there.
C30_Witness ==
    /\ lastOp.op = "resetLoaded"
    /\ rows = Fixture
    /\ editedRows = {}
    /\ editingRowId = NoId
    /\ q # <<>>

============================================================================
